---- MODULE Spec2Model ----
(***************************************************************************)
(* A model of two tiny-dnn layers:                                         *)
(*   dropout_layer            (src/tiny_dnn/layers/dropout_layer.h)        *)
(*   partial_connected_layer                                               *)
(*                        (src/tiny_dnn/layers/partial_connected_layer.h)  *)
(*                                                                         *)
(* Indices are 1-based here and 0-based in the C++ code: sample s of the   *)
(* model is sample s-1 of the code, and likewise for units, weights and    *)
(* biases.  float_t values are modelled by integers; the dropout rates are *)
(* exact binary fractions <<num, den>> whose scale 1/(1-p) is an integer.  *)
(***************************************************************************)
EXTENDS Integers, Sequences, FiniteSets

\* ------------------------------------------------------------------ bounds
\* largest batch size (number of samples) of a call
MaxBatch == 2
\* largest number of connect_weight and connect_bias calls made on a layer
MaxConn == 3
\* largest number of back_propagation calls into the same dW and db
MaxBack == 2
\* largest number of connect calls made before the loops of a handler are run
\* item by item
MaxWiring == 2

VARIABLES
  \* dropout_layer's members
  phase_, dropout_rate_, scale_, in_size_, mask_,
  \* tensors of the most recent dropout call: in / out of forward_propagation,
  \* out_grad[0] / in_grad[0] of back_propagation (<<>> when not passed)
  d_in, d_out, d_curr_delta, d_prev_delta,
  \* the most recent dropout call
  d_op,
  \* history: phase and rate most recently given to the layer (constructor,
  \* set_context, set_dropout_rate), batch sizes forward_propagation has seen
  given_phase, given_rate, seen_batches,
  \* history: the number of mask rows when the most recent call began
  rows_before

dvars == <<phase_, dropout_rate_, scale_, in_size_, mask_, d_in, d_out,
           d_curr_delta, d_prev_delta, d_op, given_phase, given_rate,
           seen_batches, rows_before>>

VARIABLES
  \* partial_connected_layer's members
  weight2io_, out2wi_, in2wo_, bias2out_, out2bias_, scale_factor_,
  \* the caller's tensors: in_data = [in (prev_out), W, b], out_grad[0]
  p_in, p_W, p_b, p_curr_delta,
  \* the caller's buffers: out_data[0] and in_grad = [prev_delta, dW, db]
  p_out, p_prev_delta, p_dW, p_db,
  \* the most recent partial_connected call
  p_op,
  \* history: how often connect_weight(i, o, w) and connect_bias(b, o) were
  \* called, dW and db as the caller first handed them in, and the number of
  \* back_propagation calls since
  weight_calls, bias_calls, dW_first, db_first, n_back

pvars == <<weight2io_, out2wi_, in2wo_, bias2out_, out2bias_, scale_factor_,
           p_in, p_W, p_b, p_curr_delta, p_out, p_prev_delta, p_dW, p_db,
           p_op, weight_calls, bias_calls, dW_first, db_first, n_back>>

VARIABLES
  \* the handler whose parallel-for loops are being run ("idle" before the
  \* first, "returned" after one), and the sample and loop it has reached
  par_op, par_sample, par_phase,
  \* the work items of the current loop not yet started, and those running
  par_todo, par_running

parvars == <<par_op, par_sample, par_phase, par_todo, par_running>>

vars == <<dvars, pvars, parvars>>

\* ----------------------------------------------------------------- helpers
\* a rows x cols tensor of small integers, different for different k
Tens(k, rows, cols) ==
  [s \in 1..rows |-> [i \in 1..cols |-> ((5 * k + 3 * s + 2 * i) % 7) - 3]]

\* the tensors handed to the layers are Tens(k, ...) for k in Seeds
Seeds == {0, 1}

\* the in_dim a dropout layer is constructed with
InDims == {1, 2}

\* net_phase
Phases == {"train", "test"}

\* dropout rates in (0,1), as <<num, den>>: 1/2, 3/4, 7/8
Rates == {<<1, 2>>, <<3, 4>>, <<7, 8>>}

\* float_t(1) / (float_t(1) - dropout_rate_)
ScaleOf(rate) == rate[2] \div (rate[2] - rate[1])

\* bernoulli(p): the outcomes of one draw, stored into a uint8_t
bernoulli(p) == {0, 1}

\* mutant of resize: every row of the result is val (assign(n, val))
resize_assign(m, n, val) == [k \in 1..n |-> val]

\* std::vector::resize(n, val) on a vector shorter than n
resize(m, n, val) == m \o [k \in 1..(n - Len(m)) |-> val]

\* std::fill(sample.begin(), sample.end(), 0) on every row
ClearRows(m) == [s \in 1..Len(m) |-> [i \in 1..Len(m[s]) |-> 0]]

\* no handler is being run item by item
ParIdle ==
  /\ par_op = "idle" /\ par_sample = 0 /\ par_phase = "none"
  /\ par_todo = {} /\ par_running = {}

\* ----------------------------------------------------------- dropout_layer
\* dropout_layer(in_dim, dropout_rate, phase)
DropoutInit ==
  /\ in_size_ \in InDims
  /\ phase_ \in Phases
  /\ dropout_rate_ \in Rates
  /\ scale_ = ScaleOf(dropout_rate_)
  /\ mask_ = ClearRows(resize(<<>>, 1, [i \in 1..in_size_ |-> 0]))
  /\ d_in = <<>> /\ d_out = <<>> /\ d_curr_delta = <<>> /\ d_prev_delta = <<>>
  /\ d_op = "new"
  /\ given_phase = phase_
  /\ given_rate = dropout_rate_
  /\ seen_batches = {}
  /\ rows_before = 0

\* mutant of set_dropout_rate: scale_ keeps the value of the old rate
set_dropout_rate_stale_scale(rate) ==
  /\ dropout_rate_' = rate
  /\ given_rate' = rate
  /\ d_op' = "set_dropout_rate"
  /\ rows_before' = Len(mask_)
  /\ d_in' = <<>> /\ d_out' = <<>>
  /\ d_curr_delta' = <<>> /\ d_prev_delta' = <<>>
  /\ UNCHANGED <<pvars, parvars, scale_, phase_, in_size_, mask_, given_phase,
                 seen_batches>>

set_dropout_rate(rate) ==
  /\ dropout_rate_' = rate
  /\ scale_' = ScaleOf(rate)
  /\ given_rate' = rate
  /\ d_op' = "set_dropout_rate"
  /\ rows_before' = Len(mask_)
  /\ d_in' = <<>> /\ d_out' = <<>>
  /\ d_curr_delta' = <<>> /\ d_prev_delta' = <<>>
  /\ UNCHANGED <<pvars, parvars, phase_, in_size_, mask_, given_phase,
                 seen_batches>>

\* mutant of set_context: the context is not stored
set_context_ignored(ctx) ==
  /\ given_phase' = ctx
  /\ d_op' = "set_context"
  /\ rows_before' = Len(mask_)
  /\ d_in' = <<>> /\ d_out' = <<>>
  /\ d_curr_delta' = <<>> /\ d_prev_delta' = <<>>
  /\ UNCHANGED <<pvars, parvars, phase_, dropout_rate_, scale_, in_size_,
                 mask_, given_rate, seen_batches>>

set_context(ctx) ==
  /\ phase_' = ctx
  /\ given_phase' = ctx
  /\ d_op' = "set_context"
  /\ rows_before' = Len(mask_)
  /\ d_in' = <<>> /\ d_out' = <<>>
  /\ d_curr_delta' = <<>> /\ d_prev_delta' = <<>>
  /\ UNCHANGED <<pvars, parvars, dropout_rate_, scale_, in_size_, mask_,
                 given_rate, seen_batches>>

clear_mask ==
  /\ mask_' = ClearRows(mask_)
  /\ d_op' = "clear_mask"
  /\ rows_before' = Len(mask_)
  /\ d_in' = <<>> /\ d_out' = <<>>
  /\ d_curr_delta' = <<>> /\ d_prev_delta' = <<>>
  /\ UNCHANGED <<pvars, parvars, phase_, dropout_rate_, scale_, in_size_,
                 given_phase, given_rate, seen_batches>>

\* mutant of GrownMask: the store is resized to every batch size, also a
\* smaller one (a batch of no samples leaves it alone)
GrownMask_shrinks(m, sample_count) ==
  IF sample_count = 0
    THEN m
    ELSE [k \in 1..sample_count |-> IF k <= Len(m) THEN m[k] ELSE m[1]]

\* lines 97-99: the mask store after the growth step
GrownMask(m, sample_count) ==
  IF Len(m) < sample_count THEN resize(m, sample_count, m[1]) ELSE m

\* lines 101-117: the mask store after the per-sample loop, draws[s] being the
\* bernoulli draws of sample s
MaskAfterLoop(m, sample_count, phase, draws) ==
  [s \in 1..Len(m) |->
     IF s <= sample_count /\ phase = "train" THEN draws[s] ELSE m[s]]

\* lines 109-116: the output row of one sample
OutRow(phase, mask, scale, in_vec) ==
  IF phase = "train"
    THEN [i \in 1..Len(in_vec) |-> mask[i] * scale * in_vec[i]]
    ELSE [i \in 1..Len(in_vec) |-> in_vec[i]]

dropout_forward_propagation(in) ==
  LET sample_count == Len(in)
      grown == GrownMask(mask_, sample_count)
      \* line 110 runs in the training phase only
      draw_sets == IF phase_ = "train"
                     THEN [1..sample_count ->
                             [1..in_size_ -> bernoulli(dropout_rate_)]]
                     ELSE {<<>>}
  IN \E draws \in draw_sets :
       /\ mask_' = MaskAfterLoop(grown, sample_count, phase_, draws)
       /\ d_in' = in
       /\ d_out' = [s \in 1..sample_count |->
                      OutRow(phase_, mask_'[s], scale_, in[s])]
       /\ d_curr_delta' = <<>> /\ d_prev_delta' = <<>>
       /\ d_op' = "forward"
       /\ rows_before' = Len(mask_)
       /\ seen_batches' = seen_batches \cup {sample_count}
       /\ UNCHANGED <<pvars, parvars, phase_, dropout_rate_, scale_, in_size_,
                      given_phase, given_rate>>

\* mutant of dropout_back_propagation: every sample uses mask row 0
dropout_back_propagation_row0(curr_delta) ==
  /\ Len(curr_delta) <= Len(mask_)
  /\ d_prev_delta' = [s \in 1..Len(curr_delta) |->
                        [i \in 1..Len(curr_delta[s]) |->
                           mask_[1][i] * curr_delta[s][i]]]
  /\ d_curr_delta' = curr_delta
  /\ d_in' = <<>> /\ d_out' = <<>>
  /\ d_op' = "backward"
  /\ rows_before' = Len(mask_)
  /\ UNCHANGED <<pvars, parvars, phase_, dropout_rate_, scale_, in_size_,
                 mask_, given_phase, given_rate, seen_batches>>

\* lines 79-87; the caller's gradient tensors have one row per sample of the
\* preceding forward call, so every mask_[sample] read is in range
dropout_back_propagation(curr_delta) ==
  /\ Len(curr_delta) <= Len(mask_)
  /\ d_prev_delta' = [s \in 1..Len(curr_delta) |->
                        [i \in 1..Len(curr_delta[s]) |->
                           mask_[s][i] * curr_delta[s][i]]]
  /\ d_curr_delta' = curr_delta
  /\ d_in' = <<>> /\ d_out' = <<>>
  /\ d_op' = "backward"
  /\ rows_before' = Len(mask_)
  /\ UNCHANGED <<pvars, parvars, phase_, dropout_rate_, scale_, in_size_,
                 mask_, given_phase, given_rate, seen_batches>>

DropoutNext ==
  \/ \E rate \in Rates : set_dropout_rate(rate)
  \/ \E ctx \in Phases : set_context(ctx)
  \/ clear_mask
  \/ \E k \in Seeds, n \in 0..MaxBatch :
       dropout_forward_propagation(Tens(k, n, in_size_))
  \/ \E k \in Seeds, n \in 0..MaxBatch :
       dropout_back_propagation(Tens(k + 1, n, in_size_))

\* no partial_connected_layer exists
PclIdle ==
  /\ weight2io_ = <<>> /\ out2wi_ = <<>> /\ in2wo_ = <<>>
  /\ bias2out_ = <<>> /\ out2bias_ = <<>> /\ scale_factor_ = 0
  /\ p_in = <<>> /\ p_W = <<>> /\ p_b = <<>> /\ p_curr_delta = <<>>
  /\ p_out = <<>> /\ p_prev_delta = <<>> /\ p_dW = <<>> /\ p_db = <<>>
  /\ p_op = "none" /\ weight_calls = <<>> /\ bias_calls = <<>>
  /\ dW_first = <<>> /\ db_first = <<>> /\ n_back = 0

DropoutOnly == PclIdle /\ ParIdle /\ DropoutInit

SpecDropout == DropoutOnly /\ [][DropoutNext]_vars


\* ------------------------------------------------- partial_connected_layer
\* the constructor's in_dim, out_dim, weight_dim and bias_dim
PclShape == [in_dim |-> 2, out_dim |-> 2, weight_dim |-> 2, bias_dim |-> 2]

Inputs == 1..PclShape.in_dim
Outputs == 1..PclShape.out_dim
Weights == 1..PclShape.weight_dim
Biases == 1..PclShape.bias_dim

\* the constructor's scale_factor of the layer that is handed the tensors of
\* seed k: 1 (the default) and 2
ScaleFor(k) == k + 1

\* in.size() / prev_out.size(): the number of samples of a tensor whose rows
\* are the samples
SampleCount(t) == Len(t)

RECURSIVE SeqSum(_)
\* the sum of a sequence of numbers, added up front to back
SeqSum(q) == IF q = <<>> THEN 0 ELSE q[1] + SeqSum(Tail(q))

\* partial_connected_layer(in_dim, out_dim, weight_dim, bias_dim,
\* scale_factor): empty tables, out2bias_ value-initialised to bias 0; the
\* caller's tensors and buffers hold whatever the caller put there
PclInit ==
  /\ weight2io_ = [w \in Weights |-> <<>>]
  /\ out2wi_ = [o \in Outputs |-> <<>>]
  /\ in2wo_ = [i \in Inputs |-> <<>>]
  /\ bias2out_ = [b \in Biases |-> <<>>]
  /\ out2bias_ = [o \in Outputs |-> 1]
  /\ \E k \in Seeds, n \in 1..MaxBatch :
       /\ scale_factor_ = ScaleFor(k)
       /\ p_in = Tens(k, n, PclShape.in_dim)
       /\ p_W = Tens(k + 4, 1, PclShape.weight_dim)[1]
       /\ p_b = Tens(k + 3, 1, PclShape.bias_dim)[1]
       /\ p_curr_delta = Tens(k + 5, n, PclShape.out_dim)
       /\ p_out = Tens(k + 2, n, PclShape.out_dim)
       /\ p_prev_delta = Tens(k + 6, n, PclShape.in_dim)
       /\ p_dW = Tens(k + 3, 1, PclShape.weight_dim)[1]
       /\ p_db = Tens(k + 4, 1, PclShape.bias_dim)[1]
  /\ p_op = "new"
  /\ weight_calls = [t \in Inputs \X Outputs \X Weights |-> 0]
  /\ bias_calls = [t \in Biases \X Outputs |-> 0]
  /\ dW_first = p_dW
  /\ db_first = p_db
  /\ n_back = 0

\* the number of connect_weight and connect_bias calls made so far
Connections ==
  SeqSum([w \in Weights |-> Len(weight2io_[w])])
    + SeqSum([b \in Biases |-> Len(bias2out_[b])])

\* the tables are built before the first forward or backward call
Wiring == p_op \in {"new", "connect_weight", "connect_bias"}

\* mutant of connect_weight: in2wo_ gets the pair the other way round
connect_weight_swapped(input_index, output_index, weight_index) ==
  /\ Wiring /\ Connections < MaxConn
  /\ weight2io_' = [weight2io_ EXCEPT ![weight_index] =
                      Append(@, <<input_index, output_index>>)]
  /\ out2wi_' = [out2wi_ EXCEPT ![output_index] =
                   Append(@, <<weight_index, input_index>>)]
  /\ in2wo_' = [in2wo_ EXCEPT ![input_index] =
                  Append(@, <<output_index, weight_index>>)]
  /\ weight_calls' = [weight_calls EXCEPT
                        ![<<input_index, output_index, weight_index>>] = @ + 1]
  /\ p_op' = "connect_weight"
  /\ UNCHANGED <<dvars, parvars, bias2out_, out2bias_, scale_factor_, p_in,
                 p_W, p_b, p_curr_delta, p_out, p_prev_delta, p_dW, p_db,
                 bias_calls, dW_first, db_first, n_back>>

connect_weight(input_index, output_index, weight_index) ==
  /\ Wiring /\ Connections < MaxConn
  /\ weight2io_' = [weight2io_ EXCEPT ![weight_index] =
                      Append(@, <<input_index, output_index>>)]
  /\ out2wi_' = [out2wi_ EXCEPT ![output_index] =
                   Append(@, <<weight_index, input_index>>)]
  /\ in2wo_' = [in2wo_ EXCEPT ![input_index] =
                  Append(@, <<weight_index, output_index>>)]
  /\ weight_calls' = [weight_calls EXCEPT
                        ![<<input_index, output_index, weight_index>>] = @ + 1]
  /\ p_op' = "connect_weight"
  /\ UNCHANGED <<dvars, parvars, bias2out_, out2bias_, scale_factor_, p_in,
                 p_W, p_b, p_curr_delta, p_out, p_prev_delta, p_dW, p_db,
                 bias_calls, dW_first, db_first, n_back>>

connect_bias(bias_index, output_index) ==
  /\ Wiring /\ Connections < MaxConn
  /\ out2bias_' = [out2bias_ EXCEPT ![output_index] = bias_index]
  /\ bias2out_' = [bias2out_ EXCEPT ![bias_index] = Append(@, output_index)]
  /\ bias_calls' = [bias_calls EXCEPT ![<<bias_index, output_index>>] = @ + 1]
  /\ p_op' = "connect_bias"
  /\ UNCHANGED <<dvars, parvars, weight2io_, out2wi_, in2wo_, scale_factor_,
                 p_in, p_W, p_b, p_curr_delta, p_out, p_prev_delta, p_dW,
                 p_db, weight_calls, dW_first, db_first, n_back>>

\* mutant of OutElement: out_element is not set to 0.0 before the sum
OutElement_not_zeroed(old, sample, i) ==
  LET connections == out2wi_[i]
      sum == old + SeqSum([c \in 1..Len(connections) |->
                             p_W[connections[c][1]]
                               * p_in[sample][connections[c][2]]])
  IN sum * scale_factor_ + p_b[out2bias_[i]]

\* lines 76-87: out[sample][i], old being what the slot held
OutElement(old, sample, i) ==
  LET connections == out2wi_[i]
      sum == 0 + SeqSum([c \in 1..Len(connections) |->
                           p_W[connections[c][1]]
                             * p_in[sample][connections[c][2]]])
  IN sum * scale_factor_ + p_b[out2bias_[i]]

\* lines 71-89; out_sample is a handle onto row `sample` of the caller's out
pcl_forward_propagation ==
  /\ p_out' = [sample \in 1..SampleCount(p_in) |->
                 [i \in Outputs |-> OutElement(p_out[sample][i], sample, i)]]
  /\ p_op' = "forward"
  /\ UNCHANGED <<dvars, parvars, weight2io_, out2wi_, in2wo_, bias2out_,
                 out2bias_, scale_factor_, p_in, p_W, p_b, p_curr_delta,
                 p_prev_delta, p_dW, p_db, weight_calls, bias_calls, dW_first,
                 db_first, n_back>>

\* lines 107-116: prev_delta[sample][i]
PrevDeltaElement(sample, i) ==
  LET connections == in2wo_[i]
      delta == SeqSum([c \in 1..Len(connections) |->
                         p_W[connections[c][1]]
                           * p_curr_delta[sample][connections[c][2]]])
  IN delta * scale_factor_

\* lines 119-124: diff of weight i for one sample
WeightDiff(sample, i) ==
  LET connections == weight2io_[i]
  IN SeqSum([c \in 1..Len(connections) |->
               p_in[sample][connections[c][1]]
                 * p_curr_delta[sample][connections[c][2]]])

\* lines 130-133: diff of bias i for one sample
BiasDiff(sample, i) ==
  LET outs == bias2out_[i]
  IN SeqSum([c \in 1..Len(outs) |-> p_curr_delta[sample][outs[c]]])

\* mutant of AddWeightDiff: the gradient slot is assigned, not added to
AddWeightDiff_assigns(dW, sample) ==
  [i \in Weights |-> WeightDiff(sample, i) * scale_factor_]

\* lines 118-127: dW after the weight loop of one sample
AddWeightDiff(dW, sample) ==
  [i \in Weights |-> dW[i] + WeightDiff(sample, i) * scale_factor_]

\* lines 129-136: db after the bias loop of one sample
AddBiasDiff(db, sample) ==
  [i \in Biases |-> db[i] + BiasDiff(sample, i)]

RECURSIVE GradAfter(_, _, _)
\* lines 105-137: <<dW, db>> after the samples from `sample` on
GradAfter(dW, db, sample) ==
  IF sample > SampleCount(p_in)
    THEN <<dW, db>>
    ELSE GradAfter(AddWeightDiff(dW, sample), AddBiasDiff(db, sample),
                   sample + 1)

\* lines 92-138; dW and db are handles onto the caller's gradient tensors
pcl_back_propagation ==
  /\ n_back < MaxBack
  /\ p_prev_delta' = [sample \in 1..SampleCount(p_in) |->
                        [i \in Inputs |-> PrevDeltaElement(sample, i)]]
  /\ p_dW' = GradAfter(p_dW, p_db, 1)[1]
  /\ p_db' = GradAfter(p_dW, p_db, 1)[2]
  /\ n_back' = n_back + 1
  /\ p_op' = "backward"
  /\ UNCHANGED <<dvars, parvars, weight2io_, out2wi_, in2wo_, bias2out_,
                 out2bias_, scale_factor_, p_in, p_W, p_b, p_curr_delta,
                 p_out, weight_calls, bias_calls, dW_first, db_first>>

PclNext ==
  \/ \E i \in Inputs, o \in Outputs, w \in Weights : connect_weight(i, o, w)
  \/ \E b \in Biases, o \in Outputs : connect_bias(b, o)
  \/ pcl_forward_propagation
  \/ pcl_back_propagation

\* no dropout_layer exists
DropoutIdle ==
  /\ phase_ = "none" /\ dropout_rate_ = <<>> /\ scale_ = 0 /\ in_size_ = 0
  /\ mask_ = <<>> /\ d_in = <<>> /\ d_out = <<>> /\ d_curr_delta = <<>>
  /\ d_prev_delta = <<>> /\ d_op = "none" /\ given_phase = "none"
  /\ given_rate = <<>> /\ seen_batches = {} /\ rows_before = 0

PclOnly == DropoutIdle /\ ParIdle /\ PclInit

SpecPCL == PclOnly /\ [][PclNext]_vars

\* ------------------------------------------------------ the parallel loops
\* The handlers again, one work item of a for_i at a time.  A memory slot is
\* <<name, row, column>> (0 where there is none); an item is a record
\* [sample, phase, i] and touches the slots its loop body reads and writes.
\* Values are not followed here, only the slots touched.
Range(q) == {q[k] : k \in 1..Len(q)}

Row(name, sample, n) == {<<name, sample, i>> : i \in 1..n}

\* dropout_layer.h lines 102-116: the body of for_i(sample_count, ...)
SampleForwardReads(sample) ==
  {<<"phase_", 0, 0>>} \cup Row("in", sample, in_size_)
    \cup (IF phase_ = "train"
            THEN {<<"dropout_rate_", 0, 0>>, <<"scale_", 0, 0>>}
                   \cup Row("mask_", sample, in_size_)
            ELSE {})

SampleForwardWrites(sample) ==
  Row("out", sample, in_size_)
    \cup (IF phase_ = "train" THEN Row("mask_", sample, in_size_) ELSE {})

\* dropout_layer.h lines 82-86: the body of for_i(prev_delta.shape()[0], ...)
SampleBackwardReads(sample) ==
  Row("mask_", sample, in_size_) \cup Row("curr_delta", sample, in_size_)

SampleBackwardWrites(sample) == Row("prev_delta", sample, in_size_)

\* partial_connected_layer.h lines 76-87: the body of for_i(out2wi_.size(), ...)
OutputItemReads(sample, i) ==
  {<<"out2wi_", i, 0>>, <<"out", sample, i>>, <<"scale_factor_", 0, 0>>,
   <<"out2bias_", i, 0>>, <<"b", out2bias_[i], 0>>}
    \cup {<<"W", c[1], 0>> : c \in Range(out2wi_[i])}
    \cup {<<"in", sample, c[2]>> : c \in Range(out2wi_[i])}

OutputItemWrites(sample, i) == {<<"out", sample, i>>}

\* lines 108-115: the body of for_i(in2wo_.size(), ...)
InputItemReads(sample, i) ==
  {<<"in2wo_", i, 0>>, <<"scale_factor_", 0, 0>>}
    \cup {<<"W", c[1], 0>> : c \in Range(in2wo_[i])}
    \cup {<<"curr_delta", sample, c[2]>> : c \in Range(in2wo_[i])}

InputItemWrites(sample, i) == {<<"prev_delta", sample, i>>}

\* lines 119-126: the body of for_i(weight2io_.size(), ...)
WeightItemReads(sample, i) ==
  {<<"weight2io_", i, 0>>, <<"scale_factor_", 0, 0>>, <<"dW", i, 0>>}
    \cup {<<"in", sample, c[1]>> : c \in Range(weight2io_[i])}
    \cup {<<"curr_delta", sample, c[2]>> : c \in Range(weight2io_[i])}

\* mutant of WeightItemWrites: the loop body of item i adds to the gradient of
\* every weight input i is connected through (a loop over in2wo_)
WeightItemWrites_by_input(sample, i) ==
  {<<"dW", c[1], 0>> : c \in Range(in2wo_[i])}

WeightItemWrites(sample, i) == {<<"dW", i, 0>>}

\* lines 129-136: the bias loop, run by the calling thread
BiasLoopReads(sample) ==
  {<<"bias2out_", i, 0>> : i \in Biases} \cup {<<"db", i, 0>> : i \in Biases}
    \cup {<<"curr_delta", sample, o>> :
            o \in UNION {Range(bias2out_[i]) : i \in Biases}}

BiasLoopWrites(sample) == {<<"db", i, 0>> : i \in Biases}

Reads(it) ==
  CASE it.phase = "forward samples" -> SampleForwardReads(it.sample)
    [] it.phase = "backward samples" -> SampleBackwardReads(it.sample)
    [] it.phase = "outputs" -> OutputItemReads(it.sample, it.i)
    [] it.phase = "inputs" -> InputItemReads(it.sample, it.i)
    [] it.phase = "weights" -> WeightItemReads(it.sample, it.i)
    [] it.phase = "biases" -> BiasLoopReads(it.sample)

Writes(it) ==
  CASE it.phase = "forward samples" -> SampleForwardWrites(it.sample)
    [] it.phase = "backward samples" -> SampleBackwardWrites(it.sample)
    [] it.phase = "outputs" -> OutputItemWrites(it.sample, it.i)
    [] it.phase = "inputs" -> InputItemWrites(it.sample, it.i)
    [] it.phase = "weights" -> WeightItemWrites(it.sample, it.i)
    [] it.phase = "biases" -> BiasLoopWrites(it.sample)

\* the work items of one loop: for_i(n, f) runs f(0) .. f(n-1); the dropout
\* loops have one item per sample, the bias loop is a single sequential item
LoopItems(phase, sample, batch) ==
  CASE phase = "forward samples" ->
         {[sample |-> k, phase |-> phase, i |-> 0] : k \in 1..batch}
    [] phase = "backward samples" ->
         {[sample |-> k, phase |-> phase, i |-> 0] : k \in 1..batch}
    [] phase = "outputs" ->
         {[sample |-> sample, phase |-> phase, i |-> k] : k \in Outputs}
    [] phase = "inputs" ->
         {[sample |-> sample, phase |-> phase, i |-> k] : k \in Inputs}
    [] phase = "weights" ->
         {[sample |-> sample, phase |-> phase, i |-> k] : k \in Weights}
    [] phase = "biases" -> {[sample |-> sample, phase |-> phase, i |-> 0]}

\* the loop a handler runs after the loop `phase` of `sample`: <<sample,
\* phase>>, or <<0, "none">> when the handler returns
LoopAfter(op, sample, phase, batch) ==
  CASE op = "pcl_forward" /\ sample < batch -> <<sample + 1, "outputs">>
    [] op = "pcl_backward" /\ phase = "inputs" -> <<sample, "weights">>
    [] op = "pcl_backward" /\ phase = "weights" -> <<sample, "biases">>
    [] op = "pcl_backward" /\ phase = "biases" /\ sample < batch ->
         <<sample + 1, "inputs">>
    [] OTHER -> <<0, "none">>

\* for_i returns when every item has run to its end
ForIDone == par_todo = {} /\ par_running = {}

\* dropout_layer::forward_propagation up to its for_i
ParDropoutForward(sample_count) ==
  /\ par_op \in {"idle", "returned"} /\ d_op # "none"
  /\ mask_' = GrownMask(mask_, sample_count)
  /\ par_op' = "dropout_forward"
  /\ par_sample' = 0 /\ par_phase' = "forward samples"
  /\ par_todo' = LoopItems("forward samples", 0, sample_count)
  /\ par_running' = {}
  /\ UNCHANGED <<pvars, phase_, dropout_rate_, scale_, in_size_, d_in, d_out,
                 d_curr_delta, d_prev_delta, d_op, given_phase, given_rate,
                 seen_batches, rows_before>>

\* dropout_layer::back_propagation up to its for_i
ParDropoutBackward(sample_count) ==
  /\ par_op \in {"idle", "returned"} /\ d_op # "none"
  /\ sample_count <= Len(mask_)
  /\ par_op' = "dropout_backward"
  /\ par_sample' = 0 /\ par_phase' = "backward samples"
  /\ par_todo' = LoopItems("backward samples", 0, sample_count)
  /\ par_running' = {}
  /\ UNCHANGED <<pvars, dvars>>

\* partial_connected_layer::forward_propagation up to its first for_i
ParPclForward ==
  /\ par_op \in {"idle", "returned"} /\ p_op # "none"
  /\ par_op' = "pcl_forward"
  /\ par_sample' = 1 /\ par_phase' = "outputs"
  /\ par_todo' = LoopItems("outputs", 1, SampleCount(p_in))
  /\ par_running' = {}
  /\ UNCHANGED <<pvars, dvars>>

\* partial_connected_layer::back_propagation up to its first for_i
ParPclBackward ==
  /\ par_op \in {"idle", "returned"} /\ p_op # "none"
  /\ par_op' = "pcl_backward"
  /\ par_sample' = 1 /\ par_phase' = "inputs"
  /\ par_todo' = LoopItems("inputs", 1, SampleCount(p_in))
  /\ par_running' = {}
  /\ UNCHANGED <<pvars, dvars>>

\* a thread takes up a work item
ItemBegin(it) ==
  /\ it \in par_todo
  /\ par_todo' = par_todo \ {it}
  /\ par_running' = par_running \cup {it}
  /\ UNCHANGED <<pvars, dvars, par_op, par_sample, par_phase>>

\* a work item runs to its end
ItemEnd(it) ==
  /\ it \in par_running
  /\ par_running' = par_running \ {it}
  /\ UNCHANGED <<pvars, dvars, par_op, par_sample, par_phase, par_todo>>

\* for_i returns; the handler goes on to its next loop, or returns
ForIReturn ==
  /\ par_op \notin {"idle", "returned"}
  /\ ForIDone
  /\ LET next == LoopAfter(par_op, par_sample, par_phase,
                           SampleCount(p_in))
     IN IF next[2] = "none"
          THEN /\ par_op' = "returned"
               /\ par_sample' = 0 /\ par_phase' = "none"
               /\ par_todo' = {}
          ELSE /\ par_op' = par_op
               /\ par_sample' = next[1] /\ par_phase' = next[2]
               /\ par_todo' = LoopItems(next[2], next[1],
                                       SampleCount(p_in))
  /\ par_running' = {}
  /\ UNCHANGED <<pvars, dvars>>

ParInit == DropoutOnly \/ PclOnly

ParNext ==
  \/ \E i \in Inputs, o \in Outputs, w \in Weights :
       /\ par_op = "idle" /\ Wiring /\ Connections < MaxWiring
       /\ connect_weight(i, o, w)
  \/ \E b \in Biases, o \in Outputs :
       /\ par_op = "idle" /\ Wiring /\ Connections < MaxWiring
       /\ connect_bias(b, o)
  \/ \E n \in 1..MaxBatch : ParDropoutForward(n)
  \/ \E n \in 1..MaxBatch : ParDropoutBackward(n)
  \/ ParPclForward
  \/ ParPclBackward
  \/ \E it \in par_todo : ItemBegin(it)
  \/ \E it \in par_running : ItemEnd(it)
  \/ ForIReturn

SpecPar == ParInit /\ [][ParNext]_vars

\* ============================================================ dropout claims
\* the rows the mask store had before the step are the same after it
RowsKept == \A s \in 1..Len(mask_) : s <= Len(mask_') /\ mask_'[s] = mask_[s]

\* C1: in inference phase (the phase given at construction or by the latest
\* set_context) forward_propagation writes out[s][i] = in[s][i] for every
\* sample and unit, whatever the rate and the mask, and leaves every mask row
\* that already existed unchanged.
C1_InferenceIsIdentity ==
  [][(d_op' = "forward" /\ given_phase = "test") =>
       /\ Len(d_out') = Len(d_in')
       /\ \A s \in 1..Len(d_in') : d_out'[s] = d_in'[s]
       /\ RowsKept]_vars

\* an inference-phase forward over two samples with a nonzero input where a
\* stored mask entry is 1 and one where it is 0
C1_Witness ==
  /\ d_op = "forward" /\ given_phase = "test" /\ Len(d_in) = 2
  /\ \E s \in 1..2 : \E i \in 1..in_size_ : mask_[s][i] = 1 /\ d_in[s][i] # 0
  /\ \E s \in 1..2 : \E i \in 1..in_size_ : mask_[s][i] = 0 /\ d_in[s][i] # 0

\* C2: in training phase forward_propagation stores 0/1 draws in mask row s of
\* every sample s of the batch and writes out[s][i] = mask[s][i] * scale *
\* in[s][i]: every output is 0 or in[s][i] * 1/(1-p), p being the rate given at
\* construction or by the latest set_dropout_rate (p = num/den, so
\* out * (den - num) = mask * in * den).
C2_TrainingForward ==
  (d_op = "forward" /\ given_phase = "train") =>
    /\ Len(d_out) = Len(d_in) /\ Len(mask_) >= Len(d_in)
    /\ \A s \in 1..Len(d_in) : \A i \in 1..Len(d_in[s]) :
         /\ mask_[s][i] \in {0, 1}
         /\ d_out[s][i] * (given_rate[2] - given_rate[1])
              = mask_[s][i] * d_in[s][i] * given_rate[2]
         /\ \/ d_out[s][i] = 0
            \/ d_out[s][i] * (given_rate[2] - given_rate[1])
                 = d_in[s][i] * given_rate[2]

\* a training forward, after the rate was changed from the constructor's, over
\* two samples: one nonzero input is dropped and another is kept and rescaled
C2_Witness ==
  /\ d_op = "forward" /\ given_phase = "train" /\ Len(d_in) = 2
  /\ given_rate = <<3, 4>>
  /\ \E s \in 1..2 : \E i \in 1..in_size_ :
       mask_[s][i] = 0 /\ d_in[s][i] # 0 /\ d_out[s][i] = 0
  /\ \E s \in 1..2 : \E i \in 1..in_size_ :
       mask_[s][i] = 1 /\ d_in[s][i] # 0 /\ d_out[s][i] = 4 * d_in[s][i]

\* C3: back_propagation writes in_grad[s][i] = mask[s][i] * out_grad[s][i] from
\* the stored mask rows and does not change them; set_context,
\* set_dropout_rate and an inference-phase forward do not change them either:
\* a step that changes a stored row is a training-phase forward or clear_mask.
C3_BackwardReplaysMask ==
  [][/\ d_op' = "backward" =>
          /\ Len(d_prev_delta') = Len(d_curr_delta')
          /\ \A s \in 1..Len(d_curr_delta') : \A i \in 1..in_size_ :
               d_prev_delta'[s][i] = mask_[s][i] * d_curr_delta'[s][i]
     /\ (\/ d_op' \in {"backward", "set_context", "set_dropout_rate"}
         \/ (d_op' = "forward" /\ given_phase = "test")) => RowsKept
     /\ ~RowsKept =>
          \/ d_op' = "clear_mask"
          \/ (d_op' = "forward" /\ given_phase = "train")]_vars

\* a backward over two samples whose mask rows differ, after the phase was
\* switched to inference: one nonzero gradient is passed and one is blocked
C3_Witness ==
  /\ d_op = "backward" /\ given_phase = "test" /\ Len(d_curr_delta) = 2
  /\ mask_[1] # mask_[2]
  /\ \E s \in 1..2 : \E i \in 1..in_size_ :
       mask_[s][i] = 1 /\ d_prev_delta[s][i] = d_curr_delta[s][i]
                      /\ d_curr_delta[s][i] # 0
  /\ \E s \in 1..2 : \E i \in 1..in_size_ :
       mask_[s][i] = 0 /\ d_prev_delta[s][i] = 0 /\ d_curr_delta[s][i] # 0

\* C4: a forward whose batch is larger than the number of mask rows grows the
\* store to exactly the batch size; the growth step (taken here from every
\* reachable store to every larger size up to MaxBatch + 1) keeps every row
\* there was and makes every new row a copy of row 0, which an
\* inference-phase forward leaves in the store; the number of rows never
\* decreases.
C4_GrowthKeepsRows ==
  /\ [](\A n \in (Len(mask_) + 1)..(MaxBatch + 1) :
          LET g == GrownMask(mask_, n)
          IN /\ Len(g) = n
             /\ \A s \in 1..Len(mask_) : g[s] = mask_[s]
             /\ \A s \in (Len(mask_) + 1)..n : g[s] = mask_[1])
  /\ [][/\ Len(mask_') >= Len(mask_)
        /\ (d_op' = "forward" /\ Len(d_in') > Len(mask_)) =>
             /\ Len(mask_') = Len(d_in')
             /\ given_phase = "test" =>
                  /\ RowsKept
                  /\ \A s \in (Len(mask_) + 1)..Len(mask_') :
                       mask_'[s] = mask_[1]]_vars

\* an inference-phase forward of two samples has just grown a one-row store
\* whose row held a 1: the old row is kept and the new row copies it
C4_Witness ==
  /\ d_op = "forward" /\ given_phase = "test"
  /\ rows_before = 1 /\ Len(d_in) = 2 /\ Len(mask_) = 2
  /\ \E i \in 1..in_size_ : mask_[1][i] = 1
  /\ mask_[2] = mask_[1]

\* C5 as stated: the number of mask rows is at most every batch size seen by
\* forward_propagation, and every row is in_dim long.
C5_AsStated ==
  /\ \A b \in seen_batches : Len(mask_) <= b
  /\ \A s \in 1..Len(mask_) : Len(mask_[s]) = in_size_

\* C5 amended: the number of mask rows is at least every batch size seen by
\* forward_propagation (it is the largest of them, and 1 when none exceeds 1),
\* and every row is in_dim long.
C5_MaskShape ==
  /\ \A b \in seen_batches : Len(mask_) >= b
  /\ Len(mask_) \in seen_batches \cup {1}
  /\ \A s \in 1..Len(mask_) : Len(mask_[s]) = in_size_

\* a forward of one sample after a forward of two: the store keeps two rows
C5_Witness ==
  /\ d_op = "forward" /\ Len(d_in) = 1 /\ Len(mask_) = 2
  /\ seen_batches = {1, 2} /\ in_size_ = 2


\* ============================================= partial_connected claims
\* how often x occurs in the sequence q
Count(x, q) == Cardinality({k \in 1..Len(q) : q[k] = x})

\* C6: for every input i, output o and weight w, (i,o) occurs in weight2io[w],
\* (w,i) in out2wi[o] and (w,o) in in2wo[i] as often as connect_weight(i,o,w)
\* was called, the tables hold nothing else, and connect_bias changes none of
\* the three.
C6_WeightTablesAgree ==
  /\ [](/\ \A i \in Inputs, o \in Outputs, w \in Weights :
             /\ Count(<<i, o>>, weight2io_[w]) = weight_calls[<<i, o, w>>]
             /\ Count(<<w, i>>, out2wi_[o]) = weight_calls[<<i, o, w>>]
             /\ Count(<<w, o>>, in2wo_[i]) = weight_calls[<<i, o, w>>]
        /\ \A w \in Weights : Len(weight2io_[w]) =
             SeqSum([i \in Inputs |->
                       SeqSum([o \in Outputs |-> weight_calls[<<i, o, w>>]])])
        /\ \A o \in Outputs : Len(out2wi_[o]) =
             SeqSum([i \in Inputs |->
                       SeqSum([w \in Weights |-> weight_calls[<<i, o, w>>]])])
        /\ \A i \in Inputs : Len(in2wo_[i]) =
             SeqSum([o \in Outputs |->
                       SeqSum([w \in Weights |-> weight_calls[<<i, o, w>>]])]))
  /\ [][p_op' = "connect_bias" =>
          UNCHANGED <<weight2io_, out2wi_, in2wo_>>]_vars

\* input 0 is wired to output 1 through weight 1 twice, then a bias is wired
C6_Witness ==
  /\ p_op = "connect_bias"
  /\ weight_calls[<<1, 2, 2>>] = 2
  /\ weight2io_[2] = <<<<1, 2>>, <<1, 2>>>>
  /\ out2wi_[2] = <<<<2, 1>>, <<2, 1>>>>
  /\ in2wo_[1] = <<<<2, 2>>, <<2, 2>>>>

\* C7 as stated: after any sequence of connect_bias calls output o is in
\* bias2out[b] if and only if out2bias[o] = b, so every output is in the list
\* of exactly one bias, the one forward_propagation adds to it.
C7_AsStated ==
  \A o \in Outputs : \A b \in Biases :
    (Count(o, bias2out_[b]) > 0) <=> (out2bias_[o] = b)

\* the weighted sum the registered connections give output o for sample s
RegisteredSum(s, o) ==
  SeqSum([i \in Inputs |->
            SeqSum([w \in Weights |->
                      weight_calls[<<i, o, w>>] * p_W[w] * p_in[s][i]])])

\* C8: forward_propagation sets, for every sample s and output o, out[s][o] =
\* scale_factor * (sum of W[w] * in[s][i] over the registered (w,i) of o, once
\* per registration) + b[out2bias[o]], whatever out held before; an output
\* with no registered connection gets the bias alone.
C8_ForwardSum ==
  p_op = "forward" =>
    /\ Len(p_out) = Len(p_in)
    /\ \A s \in 1..Len(p_in) : \A o \in Outputs :
         /\ p_out[s][o] = scale_factor_ * RegisteredSum(s, o) + p_b[out2bias_[o]]
         /\ (\A i \in Inputs, w \in Weights : weight_calls[<<i, o, w>>] = 0)
              => p_out[s][o] = p_b[out2bias_[o]]

\* a forward with scale factor 2 where both inputs feed output 0 through
\* weight 0, output 0 gets bias 1, and output 1 has no connection at all
C8_Witness ==
  /\ p_op = "forward" /\ scale_factor_ = 2 /\ Len(p_in) = 2
  /\ weight_calls[<<1, 1, 1>>] = 1 /\ weight_calls[<<2, 1, 1>>] = 1
  /\ out2bias_[1] = 2
  /\ p_out[1][1] = 2 * (p_W[1] * p_in[1][1] + p_W[1] * p_in[1][2]) + p_b[2]
  /\ p_out[1][1] # p_b[2]
  /\ p_out[1][2] = p_b[1]

\* what one back_propagation call adds to dW[w]
WeightContribution(w) ==
  scale_factor_
    * SeqSum([s \in 1..Len(p_in) |->
        SeqSum([i \in Inputs |->
          SeqSum([o \in Outputs |->
            weight_calls[<<i, o, w>>] * p_in[s][i] * p_curr_delta[s][o]])])])

\* what one back_propagation call adds to db[b]
BiasContribution(b) ==
  SeqSum([s \in 1..Len(p_in) |->
    SeqSum([o \in Outputs |-> bias_calls[<<b, o>>] * p_curr_delta[s][o]])])

\* C9: back_propagation adds to dW and db: after k calls into the same
\* buffers dW[w] is what the caller handed in plus k times scale_factor * the
\* sum over samples and registered (i,o) of w of prev_out[s][i] *
\* curr_delta[s][o], and db[b] what was handed in plus k times the sum over
\* samples and the outputs of b's list of curr_delta[s][o]; prev_delta[s][i]
\* is overwritten with scale_factor * the sum of W[w] * curr_delta[s][o] over
\* the registered (w,o) of i.
C9_GradientsAccumulate ==
  /\ \A w \in Weights : p_dW[w] = dW_first[w] + n_back * WeightContribution(w)
  /\ \A b \in Biases : p_db[b] = db_first[b] + n_back * BiasContribution(b)
  /\ p_op = "backward" =>
       /\ Len(p_prev_delta) = Len(p_in)
       /\ \A s \in 1..Len(p_in) : \A i \in Inputs :
            p_prev_delta[s][i] =
              scale_factor_
                * SeqSum([w \in Weights |->
                    SeqSum([o \in Outputs |->
                      weight_calls[<<i, o, w>>] * p_W[w]
                        * p_curr_delta[s][o]])])

\* the second backward into the same buffers, with two inputs sharing weight 0
\* into output 0 and bias 0 wired to output 0: dW[0] and db[0] hold twice the
\* contribution on top of what was handed in
C9_Witness ==
  /\ p_op = "backward" /\ n_back = 2 /\ Len(p_in) = 2
  /\ weight_calls[<<1, 1, 1>>] = 1 /\ weight_calls[<<2, 1, 1>>] = 1
  /\ bias_calls[<<1, 1>>] = 1
  /\ WeightContribution(1) # 0 /\ BiasContribution(1) # 0
  /\ p_dW[1] = dW_first[1] + 2 * WeightContribution(1)
  /\ p_db[1] = db_first[1] + 2 * BiasContribution(1)
  /\ p_prev_delta[1][1] # 0


\* ===================================================== parallel-loop claim
\* the slots of the per-sample tensors and of the mask store an item touches
SampleSlots(it) ==
  {x \in Reads(it) \cup Writes(it) :
     x[1] \in {"mask_", "in", "out", "curr_delta", "prev_delta"}}

\* C10: whichever work items of a parallel-for run at the same time, none
\* writes a slot another one reads or writes; a dropout item touches only the
\* mask, input, output and gradient rows of its own sample; a
\* partial_connected forward item writes only out[s][o], a backward item only
\* prev_delta[s][i] (first loop) or only dW[w] (second loop); the items that
\* run together belong to one loop of one sample, and the bias loop runs
\* alone, so dW and db are never added to by two samples at once.
C10_ItemsDisjoint ==
  /\ \A a \in par_running : \A b \in par_running \ {a} :
       Writes(a) \cap (Reads(b) \cup Writes(b)) = {}
  /\ \A a \in par_running \cup par_todo :
       /\ a.phase = par_phase
       /\ a.phase \in {"outputs", "inputs", "weights", "biases"}
            => a.sample = par_sample
       /\ a.phase \in {"forward samples", "backward samples"}
            => \A x \in SampleSlots(a) : x[2] = a.sample
       /\ a.phase = "outputs" => Writes(a) = {<<"out", a.sample, a.i>>}
       /\ a.phase = "inputs" => Writes(a) = {<<"prev_delta", a.sample, a.i>>}
       /\ a.phase = "weights" => Writes(a) = {<<"dW", a.i, 0>>}
       /\ a.phase = "biases" => par_running \cup par_todo = {a}

\* the two weight items of the second sample's backward pass run at the same
\* time, both inputs being connected through weight 0
C10_Witness ==
  /\ par_op = "pcl_backward" /\ par_phase = "weights" /\ par_sample = 2
  /\ Cardinality(par_running) = 2
  /\ Len(in2wo_[1]) = 1 /\ Len(in2wo_[2]) = 1 /\ Len(weight2io_[1]) = 2

====
